---- MODULE Spec2Model ----
(***************************************************************************)
(* Drowsiness detection: the useMediaPipe hook (frame loop, onResults      *)
(* callback, start/stop of a monitoring session) and the calibration and   *)
(* threshold helpers of utils/drowsinessDetection.                         *)
(*                                                                         *)
(* Units.  Times are milliseconds.  Metrics (EAR, MAR) are thousandths     *)
(* (0.41 is 410).  A baseline is a metric times BaselineScale, so that the *)
(* incremental running mean  b + (v - b) / n  is exact for every n the     *)
(* model reaches.  A threshold is a baseline times a factor in percent,    *)
(* i.e. a metric times BaselineScale * 100.                                *)
(***************************************************************************)
EXTENDS Integers, Sequences, FiniteSets, TLC

\* ------------------------------------------------------------------ bounds
MaxSeconds == 7
MaxSessions == 2
MaxSamples == 5
MaxAlarms == 3

\* Clock granularity: every timestamp of the model is a multiple of it.
TimeSteps == {1000}
MaxTime == MaxSeconds * 1000

BaselineScale == 2 * 2 * 3 * 5 * 7

\* ------------------------------------------------------- program constants
NULL == -1
NaN == -2

SUSTAINED_DURATION_MS == 3000
CALIBRATION_WINDOW_MS == 2000
STARTUP_DELAY_MS == 1000
MIN_VIDEO_READY_STATE == 2

EAR_THRESHOLD == 410
MAR_THRESHOLD == 800
EAR_CALIBRATION_FACTOR == 75
MAR_CALIBRATION_FACTOR == 140
MIN_CALIBRATION_SAMPLES == 5

\* ------------------------------------------------------------------ inputs
Inst == 1 .. MaxSessions

\* What the detector hands to onResults: no face, or the landmarks of one
\* face, abstracted to the three ratios the metric functions compute of them.
Frame(face, leftEAR, rightEAR, mar) ==
  [face |-> face, leftEAR |-> leftEAR, rightEAR |-> rightEAR, mar |-> mar]

NoFaceFrame == Frame(FALSE, NaN, NaN, NaN)
FaceFrames ==
  { Frame(TRUE, 500, 500, 500),     \* eyes open, mouth closed
    Frame(TRUE, 300, 300, 500),     \* eyes closed
    Frame(TRUE, 500, 500, 900),     \* mouth wide open
    Frame(TRUE, 300, 300, 900),     \* eyes closed, mouth wide open
    Frame(TRUE, NaN, 500, 500),     \* left eye not computable
    Frame(TRUE, 500, 500, NaN) }    \* mouth not computable
Frames == {NoFaceFrame} \cup FaceFrames

\* The frames a run offers, by the phase of the instance that receives them
\* (TRUE: it is calibrating).
AnyPhase(frames) == [phase \in BOOLEAN |-> frames]

\* the runs that exercise the session lifecycle: a subject who keeps the eyes
\* open while a session calibrates and closed once it detects
SessionFrames ==
  [phase \in BOOLEAN |-> IF phase THEN {Frame(TRUE, 500, 500, 500)}
                                    ELSE {Frame(TRUE, 300, 300, 500)}]

\* the runs that exercise the streaks: a subject who sits still while the
\* session calibrates and does anything once it detects
StreakFrames ==
  [phase \in BOOLEAN |->
     IF phase THEN {Frame(TRUE, 500, 500, 500)}
     ELSE {NoFaceFrame, Frame(TRUE, 500, 500, 500), Frame(TRUE, 300, 300, 500),
           Frame(TRUE, 500, 500, 900)}]

ReadyStates == {0, MIN_VIDEO_READY_STATE}

\* The video states in which a tick submits the frame (processFrame, line 110).
ReadyVideo == {s \in ReadyStates : s >= MIN_VIDEO_READY_STATE}

VARIABLES
  clock,               \* Date.now() / performance.now()
  faceMeshRef,         \* 0: null, else the live FaceMesh instance
  instances,           \* number of FaceMesh instances created so far
  calibrating,         \* per instance: the closure variable of its onResults
  calibrationStart,    \* per instance: the closure variable of its onResults
  isProcessingRef,
  closedEyeStartRef,
  openMouthStartRef,
  animationRef,        \* 0: undefined, else the chain whose rAF handle it holds
  chain,               \* per startDetection call: its timeout / rAF / await
  earBaseline,
  marBaseline,
  calibrationSamples,
  accepted,            \* history: count and sums of the samples accepted since the reset
  lastFrame,           \* history: what the onResults call just made saw and did
  eyeStreak,           \* history: instance whose frames alone make up the eye streak
  mouthStreak,         \* history: instance whose frames alone make up the mouth streak
  eyeRun,              \* history: time of the first frame of the current run of
                       \*          detection frames with eye ratio 0.30
  eyeSince,            \* history: time of the first detection frame with closed eyes
                       \*          since the last detection frame with open eyes
  mouthSince,          \* history: the same for the open mouth
  eyeBroken,           \* history: start of the closed-eye streak that the last
                       \*          detection frame with open eyes interrupted
  mouthBroken,         \* history: the same for the open mouth
  stopped,             \* history: stopDetection returned, no start since
  measured,            \* the last call of calculateEAR / calculateMAR: input and result
  state,               \* App.tsx: the DrowsinessState of DrowsinessApp
  alarm                \* AlarmSystem: its prop, its refs, its effect and its audio nodes

vars == << clock, faceMeshRef, instances, calibrating, calibrationStart,
           isProcessingRef, closedEyeStartRef, openMouthStartRef, animationRef,
           chain, earBaseline, marBaseline, calibrationSamples, accepted,
           lastFrame, eyeStreak, mouthStreak, eyeRun, eyeSince, mouthSince,
           eyeBroken, mouthBroken, stopped, measured, state, alarm >>

\* everything the hook and the calibration module own
detectionVars == << clock, faceMeshRef, instances, calibrating, calibrationStart,
                    isProcessingRef, closedEyeStartRef, openMouthStartRef,
                    animationRef, chain, earBaseline, marBaseline,
                    calibrationSamples, accepted, lastFrame, eyeStreak,
                    mouthStreak, eyeRun, eyeSince, mouthSince, eyeBroken,
                    mouthBroken, stopped >>

hookVars == << faceMeshRef, instances, calibrating, calibrationStart,
               isProcessingRef, animationRef, chain >>
trackerVars == << closedEyeStartRef, openMouthStartRef >>
calibrationVars == << earBaseline, marBaseline, calibrationSamples >>
uiVars == << state, alarm >>
streakVars == << eyeStreak, mouthStreak, eyeRun, eyeSince, mouthSince,
                 eyeBroken, mouthBroken >>

\* ------------------------------------------------------ number semantics
IsFinite(x) == x # NaN

\* (a + b) / 2 on numbers that may be NaN
Average(a, b) == IF IsFinite(a) /\ IsFinite(b) THEN (a + b) \div 2 ELSE NaN

\* a < b and a > b: false as soon as one side is NaN
Less(a, b) == IsFinite(a) /\ IsFinite(b) /\ a < b
Greater(a, b) == IsFinite(a) /\ IsFinite(b) /\ a > b

\* a metric in the unit of the thresholds
AsThreshold(m) == IF IsFinite(m) THEN m * BaselineScale * 100 ELSE NaN

\* ------------------------------------------------- drowsinessDetection.ts
calculateEAR(f, eye) == IF eye = "left" THEN f.leftEAR ELSE f.rightEAR
calculateMAR(f) == f.mar

\* ------------------------------- drowsinessDetection.ts: the two metrics
\* The landmark index tables, in the order the metric functions take them.
LEFT_EYE_POINTS == << 33, 160, 158, 133, 153, 144 >>
MOUTH_POINTS == << 13, 14, 78, 308, 82, 312, 87, 317 >>

\* One entry of the landmark array.  Coordinates are whole grid units; a
\* coordinate that is not of type number is NULL; landmarks[idx] of an index
\* the array does not hold is Undefined.
Landmark(x, y) == [defined |-> TRUE, x |-> x, y |-> y]
Undefined == [defined |-> FALSE, x |-> NULL, y |-> NULL]

\* typeof v === 'number'
IsNumber(v) == v # NULL

\* a metric function left by an exception instead of a return
Threw == -3

\* Math.hypot(dx, dy), rounded down to a whole unit
Hypot(dx, dy) ==
  LET sq == dx * dx + dy * dy
  IN CHOOSE r \in 0 .. sq : r * r <= sq /\ (r + 1) * (r + 1) > sq

\* reading a.x of a null point is a TypeError
dist2D(a, b) ==
  IF ~a.defined \/ ~b.defined THEN Threw ELSE Hypot(a.x - b.x, a.y - b.y)

\* the point, or null (here Undefined) when it is absent or not numeric
getLMMutant(landmarks, idx) ==
  LET lm == IF idx \in DOMAIN landmarks THEN landmarks[idx] ELSE Undefined
  IN IF ~lm.defined \/ ~IsNumber(lm.x) THEN Undefined ELSE lm
getLM(landmarks, idx) ==
  LET lm == IF idx \in DOMAIN landmarks THEN landmarks[idx] ELSE Undefined
  IN IF ~lm.defined \/ ~IsNumber(lm.x) \/ ~IsNumber(lm.y) THEN Undefined ELSE lm

\* a / b in thousandths, an exception in an operand passed on
Ratio(a, b) == IF a = Threw \/ b = Threw THEN Threw ELSE (a * 1000) \div b
Sum(a, b) == IF a = Threw \/ b = Threw THEN Threw ELSE a + b

calcEARFromEye(landmarks, eyeIndices) ==
  IF Len(eyeIndices) < 6 THEN NaN
  ELSE LET p == [k \in 1 .. Len(eyeIndices) |-> getLM(landmarks, eyeIndices[k])]
       IN IF \E k \in DOMAIN p : p[k] = Undefined THEN NaN
          ELSE LET vert1 == dist2D(p[2], p[6])
                   vert2 == dist2D(p[3], p[5])
                   horiz == dist2D(p[1], p[4])
               IN IF horiz = 0 THEN NaN
                  ELSE Ratio(Sum(vert1, vert2), Sum(horiz, horiz))

calcMARFromMouth(landmarks, mouthIndices) ==
  IF Len(mouthIndices) < 8 THEN NaN
  ELSE LET pts == [k \in 1 .. Len(mouthIndices) |-> getLM(landmarks, mouthIndices[k])]
       IN IF \E k \in DOMAIN pts : pts[k] = Undefined THEN NaN
          ELSE LET u1 == pts[1]
                   u2 == pts[2]
                   l1 == pts[3]
                   r1 == pts[4]
                   l2b == pts[6]
                   l3b == pts[7]
                   lCorner == pts[8]
                   mouthWidth == dist2D(lCorner, r1)
                   v1 == dist2D(u1, l1)
                   v2 == dist2D(u2, l2b)
                   v3 == dist2D(u1, l3b)
               IN IF mouthWidth = 0 THEN NaN
                  ELSE Ratio(Sum(Sum(v1, v2), v3), Sum(Sum(mouthWidth, mouthWidth), mouthWidth))

\* The landmarks the metrics are measured on: absent, with a coordinate that
\* is not a number, or one of three points whose distances are whole.
EyeLandmarks ==
  { Undefined, Landmark(NULL, 0), Landmark(0, NULL),
    Landmark(0, 0), Landmark(3, 0), Landmark(3, 4) }
MouthLandmarks == { Undefined, Landmark(0, NULL), Landmark(0, 0), Landmark(3, 4) }

Indices(table) == { table[k] : k \in DOMAIN table }

NotMeasured == [fn |-> "none", landmarks |-> << >>, result |-> NULL]

EmptyCalibration == [earBaseline |-> NULL, marBaseline |-> NULL, calibrationSamples |-> 0]

\* earBaseline = null; marBaseline = null; calibrationSamples = 0
resetCalibrationMutant(cal) == [cal EXCEPT !.calibrationSamples = 0]
resetCalibration(cal) == EmptyCalibration

RunningMeanMutant(baseline, value, n) ==
  IF baseline = NULL THEN value * BaselineScale
  ELSE baseline + (value * BaselineScale - baseline) \div (n + 1)
RunningMean(baseline, value, n) ==
  IF baseline = NULL THEN value * BaselineScale
  ELSE baseline + (value * BaselineScale - baseline) \div n

\* if (!Number.isFinite(ear) || !Number.isFinite(mar)) return;
SampleRejectedMutant(ear, mar) == ~IsFinite(ear) /\ ~IsFinite(mar)
SampleRejected(ear, mar) == ~IsFinite(ear) \/ ~IsFinite(mar)

accumulateCalibration(cal, f) ==
  LET ear == Average(calculateEAR(f, "left"), calculateEAR(f, "right"))
      mar == calculateMAR(f)
      n == cal.calibrationSamples + 1
  IN IF SampleRejected(ear, mar) THEN cal
     ELSE [earBaseline |-> RunningMean(cal.earBaseline, ear, n),
           marBaseline |-> RunningMean(cal.marBaseline, mar, n),
           calibrationSamples |-> n]

IsCalibratedMutant(baseline, samples) == baseline # NULL /\ samples > MIN_CALIBRATION_SAMPLES
IsCalibrated(baseline, samples) == baseline # NULL /\ samples >= MIN_CALIBRATION_SAMPLES

getCurrentEARThreshold(cal) ==
  IF IsCalibrated(cal.earBaseline, cal.calibrationSamples)
  THEN cal.earBaseline * EAR_CALIBRATION_FACTOR
  ELSE EAR_THRESHOLD * BaselineScale * 100

getCurrentMARThreshold(cal) ==
  IF IsCalibrated(cal.marBaseline, cal.calibrationSamples)
  THEN cal.marBaseline * MAR_CALIBRATION_FACTOR
  ELSE MAR_THRESHOLD * BaselineScale * 100

\* ---------------------------------------------- useMediaPipe.ts: onResults
Classification(eye, mouth, alert) == [eyeStatus |-> eye, mouthStatus |-> mouth, alertRequired |-> alert]

NoFaceClassificationMutant == Classification("Active", "Active", FALSE)
NoFaceClassification == Classification("Inactive", "Inactive", FALSE)

CalibratingClassification == Classification("Calibrating", "Calibrating", FALSE)

\* the debounce of one signal: the new value of its start-time ref
\* the no-face branch does not touch the refs
NoFaceTrackerMutant(startRef) == NULL
NoFaceTracker(startRef) == startRef

TrackerUpdateMutant(condition, startRef, now) ==
  IF condition THEN (IF startRef = NULL THEN now ELSE startRef) ELSE startRef
TrackerUpdate(condition, startRef, now) ==
  IF condition THEN (IF startRef = NULL THEN now ELSE startRef) ELSE NULL

\* the two debounce blocks of a detection frame, one per signal
DebounceMutant(eyesClosed, isYawning, eyeRef, mouthRef, now) ==
  [eye |-> TrackerUpdate(eyesClosed, eyeRef, now),
   mouth |-> TrackerUpdate(eyesClosed, mouthRef, now)]
Debounce(eyesClosed, isYawning, eyeRef, mouthRef, now) ==
  [eye |-> TrackerUpdate(eyesClosed, eyeRef, now),
   mouth |-> TrackerUpdate(isYawning, mouthRef, now)]

SustainedMutant(startRef, now) == startRef # NULL /\ now - startRef >= SUSTAINED_DURATION_MS
Sustained(startRef, now) == startRef # NULL /\ now - startRef > SUSTAINED_DURATION_MS

AlertRequiredMutant(drowsyDetected, yawnDetected) == drowsyDetected /\ yawnDetected
AlertRequired(drowsyDetected, yawnDetected) == drowsyDetected \/ yawnDetected

DetectionClassification(drowsyDetected, yawnDetected) ==
  Classification(IF drowsyDetected THEN "Drowsy" ELSE "Active",
                 IF yawnDetected THEN "Yawning" ELSE "Active",
                 AlertRequired(drowsyDetected, yawnDetected))

\* the calibration branch ends the callback after its onDetection call
CalibrationBranchReturnsMutant == FALSE
CalibrationBranchReturns == TRUE

\* the calibrating flag after a calibration frame
CalibrationContinues(now, start) == ~(now - start > CALIBRATION_WINDOW_MS)

\* Everything one onResults call of instance i computes of frame f.
FrameOutcome(i, f) ==
  LET cal == [earBaseline |-> earBaseline, marBaseline |-> marBaseline,
              calibrationSamples |-> calibrationSamples]
      face == f.face
      calibrationFrame == face /\ calibrating[i]
      detectionFrame == face /\ (~calibrating[i] \/ ~CalibrationBranchReturns)
      avgEAR == Average(calculateEAR(f, "left"), calculateEAR(f, "right"))
      mar == calculateMAR(f)
      calAfter == IF calibrationFrame THEN accumulateCalibration(cal, f) ELSE cal
      earThreshold == getCurrentEARThreshold(calAfter)
      marThreshold == getCurrentMARThreshold(calAfter)
      eyesClosed == Less(AsThreshold(avgEAR), earThreshold)
      isYawning == Greater(AsThreshold(mar), marThreshold)
      now == clock
      debounced == Debounce(eyesClosed, isYawning, closedEyeStartRef,
                            openMouthStartRef, now)
      eyeStart == IF detectionFrame THEN debounced.eye
                  ELSE IF face THEN closedEyeStartRef
                  ELSE NoFaceTracker(closedEyeStartRef)
      mouthStart == IF detectionFrame THEN debounced.mouth
                    ELSE IF face THEN openMouthStartRef
                    ELSE NoFaceTracker(openMouthStartRef)
      drowsyDetected == Sustained(eyeStart, now)
      yawnDetected == Sustained(mouthStart, now)
      emits == (IF calibrationFrame THEN << CalibratingClassification >> ELSE << >>)
               \o (IF detectionFrame
                   THEN << DetectionClassification(drowsyDetected, yawnDetected) >>
                   ELSE << >>)
               \o (IF ~face THEN << NoFaceClassification >> ELSE << >>)
  IN [face |-> face,
      calibrationFrame |-> calibrationFrame,
      detectionFrame |-> detectionFrame,
      cal |-> calAfter,
      calibrating |-> IF calibrationFrame
                      THEN CalibrationContinues(clock, calibrationStart[i])
                      ELSE calibrating[i],
      earThreshold |-> earThreshold,
      marThreshold |-> marThreshold,
      eyesClosed |-> eyesClosed,
      isYawning |-> isYawning,
      eyeFinite |-> IsFinite(avgEAR),
      mouthFinite |-> IsFinite(mar),
      eyeStart |-> eyeStart,
      mouthStart |-> mouthStart,
      emits |-> emits]

\* history: the streak a start-time ref stands for.  It is i while every
\* frame processed since the ref was set was a detection frame of instance i
\* with the condition true, and 0 when there is no such streak.
StreakUpdate(streak, i, good, startBefore) ==
  IF good THEN (IF startBefore = NULL \/ streak = i THEN i ELSE 0) ELSE 0

\* history: the samples accepted since the last reset, counted and summed
NoSamples == [n |-> 0, earSum |-> 0, marSum |-> 0]

AcceptSample(acc, ear, mar) ==
  IF IsFinite(ear) /\ IsFinite(mar)
  THEN [n |-> acc.n + 1, earSum |-> acc.earSum + ear, marSum |-> acc.marSum + mar]
  ELSE acc

\* history: the time the current run of frames began.  A frame that belongs
\* to the run continues it or begins it at now; any other frame ends it.
RunUpdate(start, belongs, now) ==
  IF belongs THEN (IF start = NULL THEN now ELSE start) ELSE NULL

\* history: the first detection frame with the condition true since the last
\* detection frame with the condition false.  Other frames do not count.
SinceUpdate(since, detection, condition, now) ==
  IF detection THEN RunUpdate(since, condition, now) ELSE since

\* history: what a detection frame with the condition false interrupted
BrokenUpdate(broken, since, detection, condition) ==
  IF detection /\ ~condition THEN since ELSE broken

NoFrame == [inst |-> 0, elapsed |-> NULL, face |-> FALSE,
            calibrationFrame |-> FALSE, detectionFrame |-> FALSE,
            earThreshold |-> 0, marThreshold |-> 0,
            eyesClosed |-> FALSE, isYawning |-> FALSE,
            eyeFinite |-> FALSE, mouthFinite |-> FALSE,
            emits |-> << >>]

BusyAfterCompletionMutant == isProcessingRef

\* The busy flag once an inference has completed: the result callback and the
\* catch both clear it (isProcessingRef.current = false).
BusyAfterCompletion == FALSE

onResults(i, f, history) ==
  LET o == FrameOutcome(i, f)
  IN /\ isProcessingRef' = BusyAfterCompletion
     /\ calibrating' = [calibrating EXCEPT ![i] = o.calibrating]
     /\ earBaseline' = o.cal.earBaseline
     /\ marBaseline' = o.cal.marBaseline
     /\ calibrationSamples' = o.cal.calibrationSamples
     /\ accepted' = IF o.calibrationFrame
                    THEN AcceptSample(accepted, Average(f.leftEAR, f.rightEAR), f.mar)
                    ELSE accepted
     /\ closedEyeStartRef' = o.eyeStart
     /\ openMouthStartRef' = o.mouthStart
     /\ lastFrame' = [inst |-> i,
                      elapsed |-> clock - calibrationStart[i],
                      face |-> o.face,
                      calibrationFrame |-> o.calibrationFrame,
                      detectionFrame |-> o.detectionFrame,
                      earThreshold |-> IF o.detectionFrame THEN o.earThreshold ELSE 0,
                      marThreshold |-> IF o.detectionFrame THEN o.marThreshold ELSE 0,
                      eyesClosed |-> o.detectionFrame /\ o.eyesClosed,
                      isYawning |-> o.detectionFrame /\ o.isYawning,
                      eyeFinite |-> o.face /\ o.eyeFinite,
                      mouthFinite |-> o.face /\ o.mouthFinite,
                      emits |-> o.emits]
     /\ IF history
        THEN /\ eyeStreak' = StreakUpdate(eyeStreak, i, o.detectionFrame /\ o.eyesClosed,
                                          closedEyeStartRef)
             /\ mouthStreak' = StreakUpdate(mouthStreak, i, o.detectionFrame /\ o.isYawning,
                                            openMouthStartRef)
             /\ eyeRun' = RunUpdate(eyeRun,
                                    /\ o.detectionFrame
                                    /\ f.leftEAR = 300 /\ f.rightEAR = 300,
                                    clock)
             /\ eyeSince' = SinceUpdate(eyeSince, o.detectionFrame, o.eyesClosed, clock)
             /\ mouthSince' = SinceUpdate(mouthSince, o.detectionFrame, o.isYawning, clock)
             /\ eyeBroken' = BrokenUpdate(eyeBroken, eyeSince, o.detectionFrame,
                                          o.eyesClosed)
             /\ mouthBroken' = BrokenUpdate(mouthBroken, mouthSince, o.detectionFrame,
                                            o.isYawning)
        ELSE UNCHANGED streakVars

\* ------------------------------------------------------------- App.tsx
\* useState<DrowsinessState>(...), and whether useMediaPipe has a detector
\* that may call onDetection
InitialState == [eyeStatus |-> "Inactive", mouthStatus |-> "Inactive",
                 isMonitoring |-> FALSE, alertActive |-> FALSE,
                 detector |-> FALSE]

\* what the hook passes to onDetection
Classifications ==
  {NoFaceClassification, CalibratingClassification}
    \cup {DetectionClassification(d, y) : d \in BOOLEAN, y \in BOOLEAN}

handleDetection(prev, c) ==
  [prev EXCEPT !.eyeStatus = c.eyeStatus, !.mouthStatus = c.mouthStatus,
               !.alertActive = c.alertRequired]

toggleMonitoring(prev) ==
  IF prev.isMonitoring
  THEN [prev EXCEPT !.isMonitoring = FALSE, !.eyeStatus = "Inactive",
                    !.mouthStatus = "Inactive", !.alertActive = FALSE]
  ELSE [prev EXCEPT !.isMonitoring = TRUE]

\* startDetection(video) when the camera is ready and monitoring is on
handleVideoReady(prev) ==
  IF prev.isMonitoring THEN [prev EXCEPT !.detector = TRUE] ELSE prev

\* --------------------------------------------------------- AlarmSystem
\* The component after its first render: the effect of the mount is due.
\* Oscillator nodes are numbered in the order of their creation; running is
\* the set of nodes started and not stopped.
Mounted == [isActive |-> FALSE, effectDue |-> TRUE, hasCleanup |-> FALSE,
            audioContextRef |-> "null", oscillatorRef |-> 0, running |-> {},
            timeout |-> FALSE, created |-> 0, rises |-> 0]

\* try { oscillatorRef.current?.stop(); } catch {}
StopOscillatorMutant(a) == a
StopOscillator(a) == [a EXCEPT !.running = a.running \ {a.oscillatorRef}]

\* stop the oscillator, drop it, close the context, drop it
Teardown(a) ==
  [StopOscillator(a) EXCEPT !.oscillatorRef = 0, !.audioContextRef = "null"]

\* the function the effect returns when isActive
Cleanup(a) == [Teardown(a) EXCEPT !.timeout = FALSE, !.hasCleanup = FALSE]

\* the isActive branch of the effect; contextState is the state a new
\* AudioContext starts in
StartAlarm(a, contextState) ==
  LET node == a.created + 1
  IN [a EXCEPT !.audioContextRef = IF a.audioContextRef = "null" THEN contextState ELSE @,
               !.oscillatorRef = node,
               !.created = node,
               !.running = a.running \cup {node},
               !.timeout = TRUE,
               !.hasCleanup = TRUE]

\* useEffect(..., [isActive]) running: the cleanup of the previous run, then
\* the body
RunEffect(a, contextState) ==
  LET cleaned == IF a.hasCleanup THEN Cleanup(a) ELSE a
      ran == IF cleaned.isActive THEN StartAlarm(cleaned, contextState)
             ELSE Teardown(cleaned)
  IN [ran EXCEPT !.effectDue = FALSE]

\* ------------------------------------------- useMediaPipe.ts: the frame loop
Idle == [pc |-> "idle", due |-> NULL, inst |-> 0]
Scheduled == [pc |-> "raf", due |-> NULL, inst |-> 0]

\* requestAnimationFrame(() => processFrame(video)) by chain c
RequestFrame(c) ==
  /\ animationRef' = c
  /\ chain' = [chain EXCEPT ![c] = Scheduled]

\* the guard of processFrame: nothing to send to, or a send outstanding
MustDeferMutant == faceMeshRef = 0
MustDefer == faceMeshRef = 0 \/ isProcessingRef

\* A tick of chain c: its startup timeout fires, or its animation frame does.
ProcessFrame(c, readyStates) ==
  /\ \/ chain[c].pc = "raf"
     \/ chain[c].pc = "timeout" /\ clock >= chain[c].due
  /\ \E readyState \in readyStates :
       IF MustDefer \/ readyState < MIN_VIDEO_READY_STATE
       THEN /\ RequestFrame(c)
            /\ UNCHANGED isProcessingRef
       ELSE /\ isProcessingRef' = TRUE
            /\ chain' = [chain EXCEPT ![c] = [pc |-> "await", due |-> NULL, inst |-> faceMeshRef]]
            /\ UNCHANGED animationRef
  /\ lastFrame' = NoFrame
  /\ UNCHANGED << clock, faceMeshRef, instances, calibrating, calibrationStart,
                  trackerVars, calibrationVars, accepted, streakVars, stopped, measured,
                  uiVars >>

\* The send of chain c delivers a result: the instance's onResults runs, then
\* the await resumes and the next tick is requested.
SendResolved(c, frames, history) ==
  /\ chain[c].pc = "await"
  /\ \E f \in frames[calibrating[chain[c].inst]] :
       /\ (f.face /\ calibrating[chain[c].inst]) => calibrationSamples < MaxSamples
       /\ onResults(chain[c].inst, f, history)
  /\ RequestFrame(c)
  /\ UNCHANGED << clock, faceMeshRef, instances, calibrationStart, stopped,
                  measured >>

\* ... with an onDetection that leaves the application as it is.
DetectorResult(c, frames, history) ==
  /\ SendResolved(c, frames, history)
  /\ UNCHANGED uiVars

\* The send of chain c throws: the catch clears the busy flag.
DetectorError(c) ==
  /\ chain[c].pc = "await"
  /\ isProcessingRef' = BusyAfterCompletion
  /\ RequestFrame(c)
  /\ lastFrame' = NoFrame
  /\ UNCHANGED << clock, faceMeshRef, instances, calibrating, calibrationStart,
                  trackerVars, calibrationVars, accepted, streakVars, stopped, measured,
                  uiVars >>

\* The send of chain c went to an instance closed since: it may also resolve
\* without any result being delivered.
DetectorDropped(c) ==
  /\ chain[c].pc = "await"
  /\ chain[c].inst # faceMeshRef
  /\ RequestFrame(c)
  /\ lastFrame' = NoFrame
  /\ UNCHANGED << clock, faceMeshRef, instances, calibrating, calibrationStart,
                  isProcessingRef, trackerVars, calibrationVars, accepted, streakVars, stopped, measured,
                  uiVars >>

\* startDetection of the hook: what it does to the hook and to the calibration.
startDetection(sessions) ==
  /\ instances < sessions
  /\ LET i == instances + 1
         cal == resetCalibration([earBaseline |-> earBaseline,
                                  marBaseline |-> marBaseline,
                                  calibrationSamples |-> calibrationSamples])
     IN /\ earBaseline' = cal.earBaseline
        /\ marBaseline' = cal.marBaseline
        /\ calibrationSamples' = cal.calibrationSamples
        /\ accepted' = NoSamples
        /\ instances' = i
        /\ faceMeshRef' = i
        /\ calibrating' = [calibrating EXCEPT ![i] = TRUE]
        /\ calibrationStart' = [calibrationStart EXCEPT ![i] = clock]
        /\ chain' = [chain EXCEPT ![i] = [pc |-> "timeout",
                                          due |-> clock + STARTUP_DELAY_MS,
                                          inst |-> 0]]
  /\ stopped' = FALSE
  /\ lastFrame' = NoFrame
  /\ UNCHANGED << clock, isProcessingRef, animationRef, trackerVars, streakVars,
                  measured >>

StartDetection(sessions) ==
  /\ startDetection(sessions)
  /\ UNCHANGED uiVars

\* stopDetection of the hook.
stopDetection ==
  /\ chain' = IF animationRef # 0 /\ chain[animationRef].pc = "raf"
              THEN [chain EXCEPT ![animationRef] = [pc |-> "cancelled", due |-> NULL, inst |-> 0]]
              ELSE chain
  /\ isProcessingRef' = FALSE
  /\ faceMeshRef' = 0
  /\ stopped' = TRUE
  /\ lastFrame' = NoFrame
  /\ UNCHANGED << clock, instances, calibrating, calibrationStart, animationRef,
                  trackerVars, calibrationVars, accepted, streakVars, measured >>

StopDetection ==
  /\ stopDetection
  /\ UNCHANGED uiVars

\* Time passes.  The clock counts from the first startDetection: nothing reads
\* it before.
Advance ==
  /\ instances > 0
  /\ \E d \in TimeSteps :
       /\ clock + d <= MaxTime
       /\ clock' = clock + d
  /\ lastFrame' = NoFrame
  /\ UNCHANGED << hookVars, trackerVars, calibrationVars, accepted, streakVars, stopped, measured,
                  uiVars >>

Init ==
  /\ clock = 0
  /\ faceMeshRef = 0
  /\ instances = 0
  /\ calibrating = [i \in Inst |-> FALSE]
  /\ calibrationStart = [i \in Inst |-> NULL]
  /\ isProcessingRef = FALSE
  /\ closedEyeStartRef = NULL
  /\ openMouthStartRef = NULL
  /\ animationRef = 0
  /\ chain = [i \in Inst |-> Idle]
  /\ earBaseline = NULL
  /\ marBaseline = NULL
  /\ calibrationSamples = 0
  /\ accepted = NoSamples
  /\ lastFrame = NoFrame
  /\ eyeStreak = 0
  /\ mouthStreak = 0
  /\ eyeRun = NULL
  /\ eyeSince = NULL
  /\ mouthSince = NULL
  /\ eyeBroken = NULL
  /\ mouthBroken = NULL
  /\ stopped = FALSE
  /\ measured = NotMeasured
  /\ state = InitialState
  /\ alarm = Mounted

\* One monitoring session, every kind of frame.  The streak history is not
\* kept here.
Next ==
  \/ StartDetection(1)
  \/ StopDetection
  \/ Advance
  \/ \E c \in Inst : ProcessFrame(c, ReadyStates)
  \/ \E c \in Inst : DetectorResult(c, AnyPhase(Frames), FALSE)
  \/ \E c \in Inst : DetectorError(c)
  \/ \E c \in Inst : DetectorDropped(c)

Spec == Init /\ [][Next]_vars

\* Several sessions started and stopped in any order, with the streak history.
NextSessions ==
  \/ StartDetection(MaxSessions)
  \/ StopDetection
  \/ Advance
  \/ \E c \in Inst : ProcessFrame(c, ReadyStates)
  \/ \E c \in Inst : DetectorResult(c, SessionFrames, TRUE)
  \/ \E c \in Inst : DetectorError(c)
  \/ \E c \in Inst : DetectorDropped(c)

SpecSessions == Init /\ [][NextSessions]_vars

\* One monitoring session with the streak history.
NextStreaks ==
  \/ StartDetection(1)
  \/ StopDetection
  \/ Advance
  \/ \E c \in Inst : ProcessFrame(c, ReadyStates)
  \/ \E c \in Inst : DetectorResult(c, StreakFrames, TRUE)
  \/ \E c \in Inst : DetectorError(c)
  \/ \E c \in Inst : DetectorDropped(c)

SpecStreaks == Init /\ [][NextStreaks]_vars

\* Sessions started one over the other, as when the camera reports ready
\* again while monitoring is on: no stop, no detector failure.
NextRestarts ==
  \/ StartDetection(MaxSessions)
  \/ Advance
  \/ \E c \in Inst : ProcessFrame(c, ReadyStates)
  \/ \E c \in Inst : DetectorResult(c, SessionFrames, FALSE)

SpecRestarts == Init /\ [][NextRestarts]_vars

\* ------------------------------------------------ the metrics on their own
\* calculateEAR(landmarks, LEFT_EYE_POINTS) on one landmark array
MeasureEAR ==
  /\ measured = NotMeasured
  /\ \E landmarks \in [Indices(LEFT_EYE_POINTS) -> EyeLandmarks] :
       measured' = [fn |-> "calculateEAR", landmarks |-> landmarks,
                    result |-> calcEARFromEye(landmarks, LEFT_EYE_POINTS)]
  /\ UNCHANGED << detectionVars, uiVars >>

\* calculateMAR(landmarks, MOUTH_POINTS) on one landmark array
MeasureMAR ==
  /\ measured = NotMeasured
  /\ \E landmarks \in [Indices(MOUTH_POINTS) -> MouthLandmarks] :
       measured' = [fn |-> "calculateMAR", landmarks |-> landmarks,
                    result |-> calcMARFromMouth(landmarks, MOUTH_POINTS)]
  /\ UNCHANGED << detectionVars, uiVars >>

NextMetrics == MeasureEAR \/ MeasureMAR
SpecMetrics == Init /\ [][NextMetrics]_vars

\* ------------------------------------------ the application and its alarm
\* the Start / Stop button
ToggleMonitoring ==
  /\ state' = toggleMonitoring(state)
  /\ UNCHANGED << detectionVars, measured, alarm >>

\* CameraFeed reports its video element
VideoReady ==
  /\ state.isMonitoring
  /\ state' = handleVideoReady(state)
  /\ UNCHANGED << detectionVars, measured, alarm >>

\* the hook reports a classification
HandleDetection ==
  /\ state.detector
  /\ \E c \in Classifications : state' = handleDetection(state, c)
  /\ UNCHANGED << detectionVars, measured, alarm >>

\* React renders AlarmSystem with a changed isActive; the effect of the
\* previous render has run by then
RenderAlarm ==
  /\ ~alarm.effectDue
  /\ alarm.isActive # state.alertActive
  /\ state.alertActive => alarm.rises < MaxAlarms
  /\ alarm' = [alarm EXCEPT !.isActive = state.alertActive,
                            !.effectDue = TRUE,
                            !.rises = IF state.alertActive THEN @ + 1 ELSE @]
  /\ UNCHANGED << detectionVars, measured, state >>

AlarmEffect ==
  /\ alarm.effectDue
  /\ \E contextState \in {"running", "suspended"} :
       alarm' = RunEffect(alarm, contextState)
  /\ UNCHANGED << detectionVars, measured, state >>

\* audioContext.resume() takes effect
ContextResumed ==
  /\ alarm.audioContextRef = "suspended"
  /\ alarm' = [alarm EXCEPT !.audioContextRef = "running"]
  /\ UNCHANGED << detectionVars, measured, state >>

\* the 30 s failsafe fires
FailsafeTimeout ==
  /\ alarm.timeout
  /\ alarm' = [StopOscillator(alarm) EXCEPT !.timeout = FALSE]
  /\ UNCHANGED << detectionVars, measured, state >>

NextAlarm ==
  \/ ToggleMonitoring
  \/ VideoReady
  \/ HandleDetection
  \/ RenderAlarm
  \/ AlarmEffect
  \/ ContextResumed
  \/ FailsafeTimeout

SpecAlarm == Init /\ [][NextAlarm]_vars

\* ------------------------------------------------------------------ claims
\* A frame has just been processed by onResults: lastFrame describes it, clock
\* is the time it read and the refs hold what it left.
FrameProcessed == lastFrame.inst # 0

\* the classification handed to onDetection by the frame just processed
Emitted == lastFrame.emits[Len(lastFrame.emits)]

StaticEARThreshold == EAR_THRESHOLD * BaselineScale * 100
StaticMARThreshold == MAR_THRESHOLD * BaselineScale * 100

C2_SustainedStreakUninterrupted ==
  lastFrame.detectionFrame =>
    /\ Emitted.eyeStatus = "Drowsy" => eyeStreak = lastFrame.inst
    /\ Emitted.mouthStatus = "Yawning" => mouthStreak = lastFrame.inst

\* the sends whose promise is still pending
Outstanding == {c \in Inst : chain[c].pc = "await"}

\* C3: under every interleaving of ticks, results, errors, stopDetection and
\* startDetection, at most one inference request is outstanding.
C3_AtMostOneInferenceOutstanding == Cardinality(Outstanding) <= 1

\* C4: once stopDetection has returned, and until the next startDetection, no
\* tick invokes the detector and no frame changes the calibration state, the
\* eye/mouth trackers or the busy flag.
C4_NoActivityAfterStop ==
  [][(stopped /\ stopped') =>
       /\ UNCHANGED << calibrationVars, trackerVars, isProcessingRef >>
       /\ \A c \in Inst : chain'[c].pc = "await" => chain[c].pc = "await"]_vars

\* C5: immediately after startDetection the calibration state is empty and
\* both temporal trackers are unset.
C5_StartResetsCalibrationAndTrackers ==
  [][instances' # instances =>
       /\ earBaseline' = NULL
       /\ marBaseline' = NULL
       /\ calibrationSamples' = 0
       /\ closedEyeStartRef' = NULL
       /\ openMouthStartRef' = NULL]_vars

\* C6: every result frame without a detected face emits exactly
\* {Inactive, Inactive, false}, whatever the phase and the tracker contents.
C6_NoFaceEmitsInactive ==
  (FrameProcessed /\ ~lastFrame.face) =>
    lastFrame.emits = << [eyeStatus |-> "Inactive", mouthStatus |-> "Inactive",
                          alertRequired |-> FALSE] >>

\* a no-face frame in the detection phase, while the eye streak is older than
\* SUSTAINED_DURATION_MS
C6_Witness ==
  /\ FrameProcessed
  /\ ~lastFrame.face
  /\ ~calibrating[lastFrame.inst]
  /\ closedEyeStartRef # NULL
  /\ clock - closedEyeStartRef > SUSTAINED_DURATION_MS
  /\ Emitted.eyeStatus = "Inactive"

\* C7: for every frame with a face the phase is decided by the time elapsed
\* since session start: elapsed < CALIBRATION_WINDOW_MS gives a calibration
\* frame emitting Calibrating; elapsed >= CALIBRATION_WINDOW_MS gives a
\* detection frame, never accumulated and never classified Calibrating.
C7_PhaseDecidedByElapsedTime ==
  (FrameProcessed /\ lastFrame.face) =>
    IF lastFrame.elapsed < CALIBRATION_WINDOW_MS
    THEN /\ lastFrame.calibrationFrame
         /\ lastFrame.emits = << CalibratingClassification >>
    ELSE /\ lastFrame.detectionFrame
         /\ ~lastFrame.calibrationFrame
         /\ Emitted.eyeStatus # "Calibrating"
         /\ Emitted.mouthStatus # "Calibrating"

\* C8: in every emitted classification alertRequired is true exactly when
\* eyeStatus is Drowsy or mouthStatus is Yawning, and Calibrating (resp.
\* Inactive) appears in both statuses or in neither.
C8_AlertIffDrowsyOrYawning ==
  \A k \in 1 .. Len(lastFrame.emits) :
    LET e == lastFrame.emits[k]
    IN /\ e.alertRequired <=> (e.eyeStatus = "Drowsy" \/ e.mouthStatus = "Yawning")
       /\ (e.eyeStatus = "Calibrating") <=> (e.mouthStatus = "Calibrating")
       /\ (e.eyeStatus = "Inactive") <=> (e.mouthStatus = "Inactive")

\* a detection frame that is Drowsy but not Yawning raises the alert
C8_Witness ==
  /\ lastFrame.detectionFrame
  /\ Emitted.eyeStatus = "Drowsy"
  /\ Emitted.mouthStatus = "Active"
  /\ Emitted.alertRequired

\* C9: for every detector result delivered, onDetection is invoked exactly
\* once, with eyeStatus in {Active, Drowsy, Calibrating, Inactive} and
\* mouthStatus in {Active, Yawning, Calibrating, Inactive}.
C9_OneDetectionPerResult ==
  FrameProcessed =>
    /\ Len(lastFrame.emits) = 1
    /\ lastFrame.emits[1].eyeStatus \in {"Active", "Drowsy", "Calibrating", "Inactive"}
    /\ lastFrame.emits[1].mouthStatus \in {"Active", "Yawning", "Calibrating", "Inactive"}
    /\ lastFrame.emits[1].alertRequired \in BOOLEAN

\* a calibration frame, whose branch calls onDetection and returns
C9_Witness ==
  /\ FrameProcessed
  /\ lastFrame.calibrationFrame
  /\ Len(lastFrame.emits) = 1
  /\ lastFrame.emits[1].eyeStatus = "Calibrating"

\* C10: in every reachable calibration state the getters return the static
\* fallbacks 0.41 / 0.80 when sampleCount < 5 and eyeBaseline * 0.75 /
\* mouthBaseline * 1.40 when sampleCount >= 5; a detection frame runs on the
\* values so determined.
C10_ThresholdsFollowSampleCount ==
  LET cal == [earBaseline |-> earBaseline, marBaseline |-> marBaseline,
              calibrationSamples |-> calibrationSamples]
      expectedEAR == IF calibrationSamples < 5 THEN StaticEARThreshold
                     ELSE earBaseline * EAR_CALIBRATION_FACTOR
      expectedMAR == IF calibrationSamples < 5 THEN StaticMARThreshold
                     ELSE marBaseline * MAR_CALIBRATION_FACTOR
  IN /\ calibrationSamples >= 5 => (earBaseline # NULL /\ marBaseline # NULL)
     /\ getCurrentEARThreshold(cal) = expectedEAR
     /\ getCurrentMARThreshold(cal) = expectedMAR
     /\ lastFrame.detectionFrame =>
          /\ lastFrame.earThreshold = expectedEAR
          /\ lastFrame.marThreshold = expectedMAR

\* a detection frame of a session calibrated on exactly 5 samples, whose eye
\* threshold is the calibrated one and differs from the fallback
C10_Witness ==
  /\ lastFrame.detectionFrame
  /\ calibrationSamples = 5
  /\ lastFrame.earThreshold = earBaseline * EAR_CALIBRATION_FACTOR
  /\ lastFrame.earThreshold # StaticEARThreshold

\* a detection frame of a session that collected fewer than 5 samples
C10_FallbackSessionReached ==
  /\ lastFrame.detectionFrame
  /\ calibrationSamples < 5
  /\ lastFrame.earThreshold = StaticEARThreshold
  /\ lastFrame.marThreshold = StaticMARThreshold

\* C11: in a detection frame a signal whose metric is not finite is classified
\* Inactive on that frame: not Active, Drowsy or Yawning.
C11_NonFiniteMetricIsInactive ==
  lastFrame.detectionFrame =>
    /\ ~lastFrame.eyeFinite => Emitted.eyeStatus = "Inactive"
    /\ ~lastFrame.mouthFinite => Emitted.mouthStatus = "Inactive"

\* what the code emits for such a signal is Active
C11_NonFiniteMetricIsActive ==
  lastFrame.detectionFrame =>
    /\ ~lastFrame.eyeFinite => Emitted.eyeStatus = "Active"
    /\ ~lastFrame.mouthFinite => Emitted.mouthStatus = "Active"

C11_NonFiniteDetectionFrameReached ==
  /\ lastFrame.detectionFrame
  /\ ~lastFrame.eyeFinite
  /\ closedEyeStartRef = NULL

\* C12: a calibration frame whose eye ratio or mouth ratio is not finite leaves
\* sampleCount, eyeBaseline and mouthBaseline as they were, and a valid frame
\* accumulated after it gives what it would have given without the bad frame.
C12_BadSampleLeavesCalibrationUnchanged ==
  [][LET bad == /\ lastFrame'.calibrationFrame
                /\ ~lastFrame'.eyeFinite \/ ~lastFrame'.mouthFinite
         cal == [earBaseline |-> earBaseline, marBaseline |-> marBaseline,
                 calibrationSamples |-> calibrationSamples]
         Rejected(f) == \/ ~IsFinite(f.leftEAR) \/ ~IsFinite(f.rightEAR)
                        \/ ~IsFinite(f.mar)
     IN /\ bad => UNCHANGED calibrationVars
        /\ \A b \in FaceFrames : Rejected(b) =>
             /\ accumulateCalibration(cal, b) = cal
             /\ \A v \in FaceFrames :
                  accumulateCalibration(accumulateCalibration(cal, b), v)
                    = accumulateCalibration(cal, v)]_vars

\* a calibration frame with a non-finite ratio was just processed, after
\* samples had been accepted
C12_Witness ==
  /\ lastFrame.calibrationFrame
  /\ ~lastFrame.eyeFinite \/ ~lastFrame.mouthFinite
  /\ calibrationSamples >= 1
  /\ earBaseline # NULL

\* C13: after n >= 1 samples accepted since the reset, sampleCount is n and
\* each baseline is the arithmetic mean of the accepted values of its metric
\* (the first sample stored as it is); with no sample accepted both baselines
\* are unset.
C13_BaselinesAreMeans ==
  /\ calibrationSamples = accepted.n
  /\ accepted.n = 0 => (earBaseline = NULL /\ marBaseline = NULL)
  /\ accepted.n >= 1 =>
       /\ earBaseline # NULL /\ marBaseline # NULL
       /\ earBaseline * accepted.n = accepted.earSum * BaselineScale
       /\ marBaseline * accepted.n = accepted.marSum * BaselineScale

\* three accepted samples of eye ratios 0.50, 0.50 and 0.30: the mean is not
\* one of the samples
C13_Witness ==
  /\ accepted.n = 3
  /\ accepted.earSum = 1300
  /\ 3 * earBaseline = 1300 * BaselineScale

\* five identical samples leave the baselines on the sample's values
C13_IdenticalSamplesReached ==
  /\ accepted = [n |-> 5, earSum |-> 2500, marSum |-> 2500]
  /\ calibrationSamples = 5
  /\ earBaseline = 500 * BaselineScale
  /\ marBaseline = 500 * BaselineScale

\* C14: resetCalibration takes every reachable calibration state to the empty
\* one (both baselines unset, sampleCount 0), from which both threshold getters
\* return the static fallbacks 0.41 and 0.80; resetting again changes nothing.
\* Checked on the reset startDetection makes and on every reachable state.
C14_ResetGivesEmptyCalibration ==
  [][LET cal == [earBaseline |-> earBaseline, marBaseline |-> marBaseline,
                 calibrationSamples |-> calibrationSamples]
         after == [earBaseline |-> earBaseline', marBaseline |-> marBaseline',
                   calibrationSamples |-> calibrationSamples']
         once == resetCalibration(cal)
     IN /\ instances' # instances =>
             /\ after = once
             /\ after.earBaseline = NULL /\ after.marBaseline = NULL
             /\ after.calibrationSamples = 0
             /\ getCurrentEARThreshold(after) = StaticEARThreshold
             /\ getCurrentMARThreshold(after) = StaticMARThreshold
        /\ once.earBaseline = NULL /\ once.marBaseline = NULL
        /\ once.calibrationSamples = 0
        /\ getCurrentEARThreshold(once) = StaticEARThreshold
        /\ getCurrentMARThreshold(once) = StaticMARThreshold
        /\ resetCalibration(once) = once]_vars

\* the second startDetection has just reset a calibration that held samples:
\* instance 1 ended its calibration, which it does only on a frame it has
\* accumulated, and no sample has been accepted since the reset
C14_Witness ==
  /\ instances = 2
  /\ calibrating[1] = FALSE
  /\ calibrationSamples = 0
  /\ earBaseline = NULL /\ marBaseline = NULL
  /\ chain[2].pc = "timeout"

\* C15: calculateEAR and calculateMAR never throw; they return NaN when a
\* landmark they need is absent or has an x or y that is not a number, and
\* when the reference distance (eye: p1 to p4; mouth: left corner to right
\* corner) is 0; on every other input they return a finite value.
C15_MetricIsNaNExactlyWhenNotComputable ==
  LET lm == measured.landmarks
      Bad(i) == ~lm[i].defined \/ lm[i].x = NULL \/ lm[i].y = NULL
      Same(i, j) == lm[i].x = lm[j].x /\ lm[i].y = lm[j].y
      Finite(v) == v # NaN /\ v >= 0
  IN /\ measured.result # Threw
     /\ measured.fn = "calculateEAR" =>
          IF (\E i \in {33, 160, 158, 133, 153, 144} : Bad(i)) \/ Same(33, 133)
          THEN measured.result = NaN
          ELSE Finite(measured.result)
     /\ measured.fn = "calculateMAR" =>
          IF (\E i \in {13, 14, 78, 308, 82, 312, 87, 317} : Bad(i)) \/ Same(317, 308)
          THEN measured.result = NaN
          ELSE Finite(measured.result)

\* an eye with every landmark numeric and p1 = p4: not computable
C15_Witness ==
  /\ measured.fn = "calculateEAR"
  /\ \A i \in DOMAIN measured.landmarks : measured.landmarks[i] = Landmark(3, 4)
  /\ measured.result = NaN

\* a mouth whose only fault is that landmark 82, which the formula does not
\* use, is absent
C15_UnusedLandmarkAbsentReached ==
  /\ measured.fn = "calculateMAR"
  /\ measured.landmarks[82] = Undefined
  /\ \A i \in DOMAIN measured.landmarks \ {82} : measured.landmarks[i].defined
  /\ measured.landmarks[317] # measured.landmarks[308]
  /\ measured.result = NaN

\* an eye that is computable: (3 + 5) / (2 * 4) = 1.000
C15_FiniteRatioReached ==
  /\ measured.fn = "calculateEAR"
  /\ measured.result = 1000

\* C16: once the calibration has accepted 5 frames of eye ratio 0.50 (eye
\* threshold 0.375), every frame of a continuous run of detection frames with
\* eye ratio 0.30 is Active without alert while the time since the first
\* frame of the run is at most SUSTAINED_DURATION_MS, and Drowsy with alert
\* from the first frame after that.
C16_DrowsyAfterSustainedRun ==
  ( /\ lastFrame.detectionFrame
    /\ eyeRun # NULL
    /\ accepted.n = 5
    /\ accepted.earSum = 5 * 500 ) =>
      /\ lastFrame.earThreshold = 375 * BaselineScale * 100
      /\ IF clock - eyeRun <= SUSTAINED_DURATION_MS
         THEN Emitted.eyeStatus = "Active" /\ ~Emitted.alertRequired
         ELSE Emitted.eyeStatus = "Drowsy" /\ Emitted.alertRequired

\* C18: a detection frame in which a signal's condition is false unsets that
\* signal's start time and classifies the signal Active; the signal is
\* Sustained (Drowsy, Yawning) only on a frame more than SUSTAINED_DURATION_MS
\* after the first condition-true detection frame that follows the last
\* condition-false one, so a frame at the deadline of an interrupted streak is
\* Active.
C18_InterruptionRestartsTheStreak ==
  lastFrame.detectionFrame =>
    /\ ~lastFrame.eyesClosed =>
         closedEyeStartRef = NULL /\ Emitted.eyeStatus = "Active"
    /\ ~lastFrame.isYawning =>
         openMouthStartRef = NULL /\ Emitted.mouthStatus = "Active"
    /\ Emitted.eyeStatus = "Drowsy" =>
         eyeSince # NULL /\ clock - eyeSince > SUSTAINED_DURATION_MS
    /\ Emitted.mouthStatus = "Yawning" =>
         mouthSince # NULL /\ clock - mouthSince > SUSTAINED_DURATION_MS
    /\ ( /\ lastFrame.eyesClosed
         /\ eyeBroken # NULL
         /\ clock - eyeSince <= SUSTAINED_DURATION_MS ) => Emitted.eyeStatus = "Active"
    /\ ( /\ lastFrame.isYawning
         /\ mouthBroken # NULL
         /\ clock - mouthSince <= SUSTAINED_DURATION_MS ) => Emitted.mouthStatus = "Active"

\* the eyes closed at eyeBroken, opened for a frame inside the window and
\* closed again: the frame past the deadline of the first streak is Active
C18_Witness ==
  /\ lastFrame.detectionFrame
  /\ lastFrame.eyesClosed
  /\ eyeBroken # NULL
  /\ eyeSince > eyeBroken
  /\ eyeSince - eyeBroken <= SUSTAINED_DURATION_MS
  /\ clock - eyeBroken > SUSTAINED_DURATION_MS
  /\ Emitted.eyeStatus = "Active"

\* a streak that follows an interruption does become Sustained in the end
C18_DrowsyAfterInterruptionReached ==
  /\ lastFrame.detectionFrame
  /\ eyeBroken # NULL
  /\ Emitted.eyeStatus = "Drowsy"

\* C19: a no-face frame changes neither start time, nor the calibration
\* state, nor the phase: it only emits Inactive.  The next detection frame
\* with the condition true therefore counts the streak from the start time it
\* finds, whatever no-face frames came in between.
C19_NoFaceFrameLeavesStateAlone ==
  [][/\ (lastFrame'.inst # 0 /\ ~lastFrame'.face) =>
          /\ UNCHANGED << trackerVars, calibrationVars, calibrating >>
          /\ lastFrame'.emits = << Classification("Inactive", "Inactive", FALSE) >>
     /\ (lastFrame'.detectionFrame /\ lastFrame'.eyesClosed /\ closedEyeStartRef # NULL) =>
          closedEyeStartRef' = closedEyeStartRef
     /\ (lastFrame'.detectionFrame /\ lastFrame'.isYawning /\ openMouthStartRef # NULL) =>
          openMouthStartRef' = openMouthStartRef]_vars

\* a no-face frame was just processed while a closed-eye streak was running
\* and the calibration held samples
C19_Witness ==
  /\ FrameProcessed
  /\ ~lastFrame.face
  /\ closedEyeStartRef # NULL
  /\ closedEyeStartRef = eyeSince
  /\ calibrationSamples >= 1

\* Drowsy on a streak some frame of which had no face: the start time is the
\* one set before that frame
C19_StreakAcrossNoFaceReached ==
  /\ lastFrame.detectionFrame
  /\ Emitted.eyeStatus = "Drowsy"
  /\ eyeStreak = 0
  /\ closedEyeStartRef = eyeSince

\* C20: in every detection frame the new eye start time and the eye status
\* are a function of the eye condition, the old eye start time and the
\* timestamp alone, and the new mouth start time and the mouth status a
\* function of the mouth condition, the old mouth start time and the
\* timestamp alone.
C20_SignalsTrackedIndependently ==
  [][LET frame == lastFrame'
         emitted == frame.emits[Len(frame.emits)]
         StartTime(condition, old) ==
           IF condition THEN (IF old = NULL THEN clock ELSE old) ELSE NULL
         Over(start) == start # NULL /\ clock - start > SUSTAINED_DURATION_MS
     IN frame.detectionFrame =>
          /\ closedEyeStartRef' = StartTime(frame.eyesClosed, closedEyeStartRef)
          /\ emitted.eyeStatus = IF Over(closedEyeStartRef') THEN "Drowsy" ELSE "Active"
          /\ openMouthStartRef' = StartTime(frame.isYawning, openMouthStartRef)
          /\ emitted.mouthStatus = IF Over(openMouthStartRef') THEN "Yawning" ELSE "Active"]_vars

\* the eyes have just closed on a frame that continues an older yawn: the
\* eye streak starts now, the mouth streak keeps its start
C20_Witness ==
  /\ lastFrame.detectionFrame
  /\ lastFrame.eyesClosed /\ lastFrame.isYawning
  /\ closedEyeStartRef = clock
  /\ openMouthStartRef # NULL
  /\ openMouthStartRef < clock

\* the eyes are open on a frame of a sustained yawn: the eye tracker is
\* unset and the mouth is Yawning
C20_YawningWithOpenEyesReached ==
  /\ lastFrame.detectionFrame
  /\ ~lastFrame.eyesClosed
  /\ closedEyeStartRef = NULL
  /\ Emitted.eyeStatus = "Active"
  /\ Emitted.mouthStatus = "Yawning"

\* C17: the alarm follows the alert flag.  Every change of isActive from
\* false to true has started one oscillator once its effect has run, every
\* change from true to false has stopped it, and when alertActive is false
\* and the effect has run no oscillator is running; at no time is more than
\* one running.
C17_AlarmFollowsAlertFlag ==
  LET settled == ~alarm.effectDue
  IN /\ Cardinality(alarm.running) <= 1
     /\ settled => alarm.created = alarm.rises
     /\ (settled /\ alarm.isActive) =>
          /\ alarm.oscillatorRef = alarm.created
          /\ alarm.timeout => alarm.oscillatorRef \in alarm.running
     /\ (settled /\ ~alarm.isActive) =>
          /\ alarm.running = {}
          /\ alarm.oscillatorRef = 0
          /\ alarm.audioContextRef = "null"
          /\ ~alarm.timeout
     /\ (~state.alertActive /\ ~alarm.isActive /\ settled) => alarm.running = {}

\* the alert has risen and fallen, and the effect of the fall has run: the
\* oscillator that was started is silent
C17_Witness ==
  /\ ~state.alertActive
  /\ ~alarm.isActive
  /\ ~alarm.effectDue
  /\ alarm.created >= 1
  /\ alarm.running = {}

\* the oscillator started for the current alert is sounding
C17_AlarmSoundingReached ==
  /\ state.alertActive
  /\ alarm.isActive
  /\ ~alarm.effectDue
  /\ alarm.running = {alarm.oscillatorRef}
  /\ alarm.audioContextRef = "running"

\* the failsafe has silenced the alarm while the alert is still on
C17_SilencedByFailsafeReached ==
  /\ state.alertActive
  /\ alarm.isActive
  /\ ~alarm.effectDue
  /\ alarm.running = {}

\* ---------------------------------------------------------------------------
\* The frame loop under fair scheduling: the browser runs every requested
\* animation frame and due timeout, the video stays ready, and the detector
\* answers every send by a result or by an error. The loop does not depend on
\* what a frame shows, so the detector reports frames without a face.
LiveFrames == AnyPhase({NoFaceFrame})

NextLive ==
  \/ StartDetection(MaxSessions)
  \/ StopDetection
  \/ Advance
  \/ \E c \in Inst : ProcessFrame(c, ReadyVideo)
  \/ \E c \in Inst : DetectorResult(c, LiveFrames, FALSE)
  \/ \E c \in Inst : DetectorError(c)

SpecLive ==
  /\ Init
  /\ [][NextLive]_vars
  /\ WF_vars(\E c \in Inst : ProcessFrame(c, ReadyVideo))
  /\ WF_vars(\E c \in Inst : DetectorResult(c, LiveFrames, FALSE) \/ DetectorError(c))

Active == faceMeshRef # 0

Awaiting == {c \in Inst : chain[c].pc = "await"}

Ticking == {c \in Inst : chain[c].pc = "raf"}

\* C21: the frame loop never wedges. Every completion of an inference (result
\* or error) clears the busy flag and requests the next tick; a pending tick
\* stays pending, turns into a submitted inference, or is cancelled by
\* stopDetection, and never just disappears; and under fair scheduling, in an
\* active session with a tick pending and no inference outstanding, a new
\* inference is eventually submitted (or the session is stopped).
C21_FrameLoopNeverWedges ==
  /\ [][\A c \in Inst :
          /\ (chain[c].pc = "await" /\ chain'[c].pc # "await")
               => (~isProcessingRef' /\ chain'[c].pc = "raf" /\ animationRef' = c)
          /\ chain[c].pc = "timeout" => chain'[c].pc \in {"timeout", "raf", "await"}
          /\ chain[c].pc = "raf" =>
               \/ chain'[c].pc \in {"raf", "await"}
               \/ chain'[c].pc = "cancelled" /\ animationRef = c /\ faceMeshRef' = 0]_vars
  /\ (Active /\ Ticking # {} /\ Awaiting = {}) ~> (Awaiting # {} \/ ~Active)

\* In a first session that was never stopped the only chain defers no tick, so
\* it has requested a frame only on completing an inference: that inference
\* was answered and a further one is outstanding.
C21_Witness ==
  /\ Active
  /\ instances = 1
  /\ ~stopped
  /\ animationRef = 1
  /\ Awaiting = {1}
  /\ isProcessingRef

\* Outside the fairness assumption: a send that resolves on a closed instance
\* without any result leaves the busy flag set, and with a restart that was
\* not preceded by a stop every later tick of the new session defers.
C21_BusyWithNothingOutstandingReached ==
  /\ Active
  /\ isProcessingRef
  /\ Awaiting = {}

\* ---------------------------------------------------------------------------
\* C22: within one session the phase is monotonic. Once a frame of the running
\* session (the one started last) has been handled in the detection phase, the
\* next frame handled is not a calibration frame, and so does not emit
\* Calibrating, unless a new session was started in between.
C22_NoCalibrationAfterDetection ==
  [][(/\ lastFrame.inst = instances
      /\ lastFrame.detectionFrame
      /\ instances' = instances)
        => ~lastFrame'.calibrationFrame]_vars

\* What the closure does guarantee: the calibrating flag of an instance is
\* cleared once, and a frame that instance handles afterwards is never a
\* calibration frame.
C22_FlagOfAnInstanceIsClearedOnce ==
  [][\A i \in Inst :
       (i <= instances /\ instances' = instances /\ ~calibrating[i])
         => /\ ~calibrating'[i]
            /\ lastFrame'.inst = i => ~lastFrame'.calibrationFrame]_vars

\* A detection frame of the running session is followed by a calibration frame
\* that a closed instance delivers late.
C22_LateCalibrationFrameReached ==
  /\ lastFrame.calibrationFrame
  /\ lastFrame.inst < instances
  /\ ~calibrating[instances]

\* ---------------------------------------------------------------------------
\* The calibration state as the Threshold Provider reads it.
CalibrationNow ==
  [earBaseline |-> earBaseline, marBaseline |-> marBaseline,
   calibrationSamples |-> calibrationSamples]

\* The running session (the one started last) has left its calibration phase.
InDetectionPhase == instances >= 1 /\ ~calibrating[instances]

\* C23: the eye and the mouth threshold are constant throughout the detection
\* phase of a session: once the running session is in its detection phase, a
\* step that stays within that session leaves both thresholds as they were.
C23_ThresholdsConstantInDetectionPhase ==
  [][(InDetectionPhase /\ instances' = instances)
       => /\ getCurrentEARThreshold(CalibrationNow') = getCurrentEARThreshold(CalibrationNow)
          /\ getCurrentMARThreshold(CalibrationNow') = getCurrentMARThreshold(CalibrationNow)]_vars

\* What the code does guarantee: the calibration state changes only in a step
\* that handles a calibration frame (of whichever instance) or starts a
\* session; detection-phase frames and no-face frames leave it unchanged.
C23_OnlyCalibrationFramesAndResetChangeCalibration ==
  [][(calibrationVars' # calibrationVars)
       => \/ lastFrame'.calibrationFrame
          \/ instances' # instances]_vars

\* The running session is in its detection phase with the static thresholds,
\* and a calibration frame of the earlier session's instance has just
\* completed the calibration: the thresholds are now the calibrated ones.
C23_ThresholdChangedInDetectionPhaseReached ==
  /\ InDetectionPhase
  /\ lastFrame.calibrationFrame
  /\ lastFrame.inst < instances
  /\ calibrationSamples = MIN_CALIBRATION_SAMPLES
  /\ getCurrentEARThreshold(CalibrationNow) # StaticEARThreshold

\* ---------------------------------------------------------------------------
\* The chains with a callback pending in the browser: a startup timeout that
\* was set or an animation frame that was requested and not cancelled.
Pending == {c \in Inst : chain[c].pc \in {"timeout", "raf"}}

\* C24: at most one frame-scheduling chain is live at a time, and after
\* stopDetection (until the next startDetection) none is.
C24_AtMostOneChainLive ==
  /\ Cardinality(Pending) <= 1
  /\ stopped => Pending = {}

\* stopDetection has returned and the startup timeout of the stopped session
\* is still pending.
C24_TimeoutSurvivesStopReached ==
  /\ stopped
  /\ \E c \in Inst : chain[c].pc = "timeout"

\* stopDetection has returned and an animation frame is requested again: by
\* the startup timeout firing after the stop or by a send that completed
\* after it.
C24_TickingAfterStopReached ==
  /\ stopped
  /\ Ticking # {}

\* Two chains have a callback pending at once.
C24_TwoChainsLiveReached == Cardinality(Pending) = 2

\* ---------------------------------------------------------------------------
\* The application with its hook: the button stops the detector, the camera
\* starts it, and every classification the hook emits goes to handleDetection.

\* setState(prev => ...) of handleDetection for each classification emitted
RECURSIVE Reported(_, _)
Reported(prev, emits) ==
  IF emits = << >> THEN prev
  ELSE Reported(handleDetection(prev, Head(emits)), Tail(emits))

\* toggleMonitoring: stopDetection() and the reset of the state, or
\* isMonitoring := true
MonitoringToggled ==
  /\ IF state.isMonitoring THEN stopDetection ELSE UNCHANGED detectionVars
  /\ state' = toggleMonitoring(state)
  /\ UNCHANGED << measured, alarm >>

\* CameraFeed has its stream playing and calls onVideoReady: once for each
\* time monitoring is switched on
DetectionStarted ==
  /\ state.isMonitoring
  /\ faceMeshRef = 0
  /\ startDetection(MaxSessions)
  /\ state' = handleVideoReady(state)
  /\ UNCHANGED alarm

\* a send resolves and onDetection is handleDetection
DetectionReported(c) ==
  /\ SendResolved(c, SessionFrames, FALSE)
  /\ state' = Reported(state, lastFrame'.emits)
  /\ UNCHANGED alarm

NextApp ==
  \/ MonitoringToggled
  \/ DetectionStarted
  \/ Advance
  \/ \E c \in Inst : ProcessFrame(c, ReadyStates)
  \/ \E c \in Inst : DetectionReported(c)
  \/ \E c \in Inst : DetectorError(c)

SpecApp == Init /\ [][NextApp]_vars

\* C25: whenever monitoring is off the displayed eye and mouth status are
\* Inactive and the alert is off.
C25_InactiveWhileNotMonitoring ==
  ~state.isMonitoring =>
    /\ state.eyeStatus = "Inactive"
    /\ state.mouthStatus = "Inactive"
    /\ ~state.alertActive

\* Monitoring is off, the detector is stopped, and the alert is on: a result
\* that arrived after the stop was classified Drowsy or Yawning.
C25_AlertWhileNotMonitoringReached ==
  /\ ~state.isMonitoring
  /\ stopped
  /\ state.alertActive
====
